---- MODULE Spec2Model ----
(***************************************************************************)
(* Model of the keyboard helper process (apps/desktop/nvidia-cc-rs,        *)
(* src/main.rs), Linux build: command dispatch in main, the evdev device   *)
(* discovery loop, the per-device monitor loop, the multi-device           *)
(* orchestrator with its shared atomic counter, and the key-name           *)
(* translation.                                                            *)
(*                                                                         *)
(* Conventions.  An Option<T> is a sequence of length at most one: None is *)
(* <<>> and Some(x) is <<x>>.  A Rust String that the program takes apart  *)
(* (key names) is a tuple of one-character strings; a String that is only  *)
(* passed around is a TLA+ string.  Timestamps are left out of the output  *)
(* records: no operation reads them.  stdout is assumed writable (println! *)
(* does not panic).                                                        *)
(***************************************************************************)
EXTENDS Integers, Sequences, FiniteSets, TLC

(* ------------------------------ bounds -------------------------------- *)

\* Number of directory entries the enumeration of /dev/input may yield.
MaxEntries == 2

\* Largest batch of raw events one fetch_events call returns.
MaxBatch == 2

\* Total number of raw events read by all monitors in one run.
MaxReads == 2

(* --------------------------- Option helpers --------------------------- *)

None == <<>>

Some(x) == <<x>>

IsSome(o) == Len(o) = 1

Unwrap(o) == o[1]

(* ------------------------ key-name translation ------------------------ *)

\* format!("{:?}", key): evdev prints a named key as its constant's name.
debug_fmt(key) ==
  CASE key = "KEY_MUTE" -> <<"K","E","Y","_","M","U","T","E">>
    [] key = "BTN_LEFT" -> <<"B","T","N","_","L","E","F","T">>

\* str::starts_with
starts_with(s, prefix) ==
  /\ Len(s) >= Len(prefix)
  /\ SubSeq(s, 1, Len(prefix)) = prefix

\* The fallback arm: the Debug name with a leading "KEY_" stripped.
fallback_name(key) ==
  LET debug_name == debug_fmt(key)
  IN  IF starts_with(debug_name, <<"K","E","Y","_">>)
      THEN SubSeq(debug_name, 5, Len(debug_name))
      ELSE debug_name

evdev_key_to_rdev_name(key) ==
  CASE key = "KEY_LEFTCTRL" -> <<"C","o","n","t","r","o","l","L","e","f","t">>
    [] key = "KEY_RIGHTCTRL" -> <<"C","o","n","t","r","o","l","R","i","g","h","t">>
    [] key = "KEY_LEFTSHIFT" -> <<"S","h","i","f","t","L","e","f","t">>
    [] key = "KEY_RIGHTSHIFT" -> <<"S","h","i","f","t","R","i","g","h","t">>
    [] key = "KEY_LEFTALT" -> <<"A","l","t">>
    [] key = "KEY_RIGHTALT" -> <<"A","l","t","R","i","g","h","t">>
    [] key = "KEY_LEFTMETA" -> <<"M","e","t","a","L","e","f","t">>
    [] key = "KEY_RIGHTMETA" -> <<"M","e","t","a","R","i","g","h","t">>
    [] key = "KEY_A" -> <<"K","e","y","A">>
    [] key = "KEY_B" -> <<"K","e","y","B">>
    [] key = "KEY_C" -> <<"K","e","y","C">>
    [] key = "KEY_D" -> <<"K","e","y","D">>
    [] key = "KEY_E" -> <<"K","e","y","E">>
    [] key = "KEY_F" -> <<"K","e","y","F">>
    [] key = "KEY_G" -> <<"K","e","y","G">>
    [] key = "KEY_H" -> <<"K","e","y","H">>
    [] key = "KEY_I" -> <<"K","e","y","I">>
    [] key = "KEY_J" -> <<"K","e","y","J">>
    [] key = "KEY_K" -> <<"K","e","y","K">>
    [] key = "KEY_L" -> <<"K","e","y","L">>
    [] key = "KEY_M" -> <<"K","e","y","M">>
    [] key = "KEY_N" -> <<"K","e","y","N">>
    [] key = "KEY_O" -> <<"K","e","y","O">>
    [] key = "KEY_P" -> <<"K","e","y","P">>
    [] key = "KEY_Q" -> <<"K","e","y","Q">>
    [] key = "KEY_R" -> <<"K","e","y","R">>
    [] key = "KEY_S" -> <<"K","e","y","S">>
    [] key = "KEY_T" -> <<"K","e","y","T">>
    [] key = "KEY_U" -> <<"K","e","y","U">>
    [] key = "KEY_V" -> <<"K","e","y","V">>
    [] key = "KEY_W" -> <<"K","e","y","W">>
    [] key = "KEY_X" -> <<"K","e","y","X">>
    [] key = "KEY_Y" -> <<"K","e","y","Y">>
    [] key = "KEY_Z" -> <<"K","e","y","Z">>
    [] key = "KEY_0" -> <<"D","i","g","i","t","0">>
    [] key = "KEY_1" -> <<"D","i","g","i","t","1">>
    [] key = "KEY_2" -> <<"D","i","g","i","t","2">>
    [] key = "KEY_3" -> <<"D","i","g","i","t","3">>
    [] key = "KEY_4" -> <<"D","i","g","i","t","4">>
    [] key = "KEY_5" -> <<"D","i","g","i","t","5">>
    [] key = "KEY_6" -> <<"D","i","g","i","t","6">>
    [] key = "KEY_7" -> <<"D","i","g","i","t","7">>
    [] key = "KEY_8" -> <<"D","i","g","i","t","8">>
    [] key = "KEY_9" -> <<"D","i","g","i","t","9">>
    [] key = "KEY_F1" -> <<"F","1">>
    [] key = "KEY_F2" -> <<"F","2">>
    [] key = "KEY_F3" -> <<"F","3">>
    [] key = "KEY_F4" -> <<"F","4">>
    [] key = "KEY_F5" -> <<"F","5">>
    [] key = "KEY_F6" -> <<"F","6">>
    [] key = "KEY_F7" -> <<"F","7">>
    [] key = "KEY_F8" -> <<"F","8">>
    [] key = "KEY_F9" -> <<"F","9">>
    [] key = "KEY_F10" -> <<"F","1","0">>
    [] key = "KEY_F11" -> <<"F","1","1">>
    [] key = "KEY_F12" -> <<"F","1","2">>
    [] key = "KEY_ESC" -> <<"E","s","c","a","p","e">>
    [] key = "KEY_TAB" -> <<"T","a","b">>
    [] key = "KEY_CAPSLOCK" -> <<"C","a","p","s","L","o","c","k">>
    [] key = "KEY_SPACE" -> <<"S","p","a","c","e">>
    [] key = "KEY_ENTER" -> <<"R","e","t","u","r","n">>
    [] key = "KEY_BACKSPACE" -> <<"B","a","c","k","S","p","a","c","e">>
    [] key = "KEY_DELETE" -> <<"D","e","l","e","t","e">>
    [] key = "KEY_INSERT" -> <<"I","n","s","e","r","t">>
    [] key = "KEY_HOME" -> <<"H","o","m","e">>
    [] key = "KEY_END" -> <<"E","n","d">>
    [] key = "KEY_PAGEUP" -> <<"P","a","g","e","U","p">>
    [] key = "KEY_PAGEDOWN" -> <<"P","a","g","e","D","o","w","n">>
    [] key = "KEY_UP" -> <<"U","p","A","r","r","o","w">>
    [] key = "KEY_DOWN" -> <<"D","o","w","n","A","r","r","o","w">>
    [] key = "KEY_LEFT" -> <<"L","e","f","t","A","r","r","o","w">>
    [] key = "KEY_RIGHT" -> <<"R","i","g","h","t","A","r","r","o","w">>
    [] key = "KEY_MINUS" -> <<"M","i","n","u","s">>
    [] key = "KEY_EQUAL" -> <<"E","q","u","a","l">>
    [] key = "KEY_LEFTBRACE" -> <<"B","r","a","c","k","e","t","L","e","f","t">>
    [] key = "KEY_RIGHTBRACE" -> <<"B","r","a","c","k","e","t","R","i","g","h","t">>
    [] key = "KEY_BACKSLASH" -> <<"B","a","c","k","S","l","a","s","h">>
    [] key = "KEY_SEMICOLON" -> <<"S","e","m","i","c","o","l","o","n">>
    [] key = "KEY_APOSTROPHE" -> <<"Q","u","o","t","e">>
    [] key = "KEY_GRAVE" -> <<"B","a","c","k","Q","u","o","t","e">>
    [] key = "KEY_COMMA" -> <<"C","o","m","m","a">>
    [] key = "KEY_DOT" -> <<"P","e","r","i","o","d">>
    [] key = "KEY_SLASH" -> <<"S","l","a","s","h">>
    [] key = "KEY_KP0" -> <<"N","u","m","p","a","d","0">>
    [] key = "KEY_KP1" -> <<"N","u","m","p","a","d","1">>
    [] key = "KEY_KP2" -> <<"N","u","m","p","a","d","2">>
    [] key = "KEY_KP3" -> <<"N","u","m","p","a","d","3">>
    [] key = "KEY_KP4" -> <<"N","u","m","p","a","d","4">>
    [] key = "KEY_KP5" -> <<"N","u","m","p","a","d","5">>
    [] key = "KEY_KP6" -> <<"N","u","m","p","a","d","6">>
    [] key = "KEY_KP7" -> <<"N","u","m","p","a","d","7">>
    [] key = "KEY_KP8" -> <<"N","u","m","p","a","d","8">>
    [] key = "KEY_KP9" -> <<"N","u","m","p","a","d","9">>
    [] key = "KEY_KPENTER" -> <<"N","u","m","p","a","d","E","n","t","e","r">>
    [] key = "KEY_KPPLUS" -> <<"N","u","m","p","a","d","A","d","d">>
    [] key = "KEY_KPMINUS" -> <<"N","u","m","p","a","d","S","u","b","t","r","a","c","t">>
    [] key = "KEY_KPASTERISK" -> <<"N","u","m","p","a","d","M","u","l","t","i","p","l","y">>
    [] key = "KEY_KPSLASH" -> <<"N","u","m","p","a","d","D","i","v","i","d","e">>
    [] key = "KEY_KPDOT" -> <<"N","u","m","p","a","d","D","e","c","i","m","a","l">>
    [] key = "KEY_NUMLOCK" -> <<"N","u","m","L","o","c","k">>
    [] key = "KEY_SCROLLLOCK" -> <<"S","c","r","o","l","l","L","o","c","k">>
    [] key = "KEY_PAUSE" -> <<"P","a","u","s","e">>
    [] key = "KEY_PRINT" -> <<"P","r","i","n","t","S","c","r","e","e","n">>
    [] key = "KEY_FN" -> <<"F","u","n","c","t","i","o","n">>
    [] OTHER -> fallback_name(key)

(* ------------------------------ inputs -------------------------------- *)

\* Argument vectors of the process (args[1] is the program name; Rust's
\* args[1] is args[2] here, sequences being 1-based).
ArgVectors ==
  { <<>>, <<"bin">>, <<"bin", "listen">>, <<"bin", "write">>,
    <<"bin", "write", "hello">>, <<"bin", "bogus">>,
    <<"bin", "bogus", "listen">> }

\* Keys a device's supported-key set is drawn from.
CapabilityKeys ==
  { "KEY_A", "KEY_B", "KEY_SPACE", "KEY_LEFTCTRL", "KEY_RIGHTCTRL",
    "KEY_LEFTALT", "KEY_RIGHTALT", "BTN_LEFT" }

\* What one entry of /dev/input can be: a name that does not start with
\* "event", a device whose open fails (with or without PermissionDenied),
\* or a device that opens, with supported_keys() None or Some(set).
DirEntries ==
  { [kind |-> "other_name", perm |-> FALSE, keys |-> None] }
  \cup { [kind |-> "open_err", perm |-> p, keys |-> None] : p \in BOOLEAN }
  \cup { [kind |-> "open_ok", perm |-> FALSE, keys |-> None] }
  \cup { [kind |-> "open_ok", perm |-> FALSE, keys |-> Some(s)] :
           s \in SUBSET CapabilityKeys }

\* Raw input events a device can deliver: a key event with value 1 (press),
\* 0 (release), 2 (repeat) and another value, on keys with and without a
\* table arm, and a non-key event.
RawEvents ==
  { [kind |-> "Key", code |-> "KEY_A", value |-> 1],
    [kind |-> "Key", code |-> "KEY_MUTE", value |-> 0],
    [kind |-> "Key", code |-> "BTN_LEFT", value |-> 2],
    [kind |-> "Key", code |-> "KEY_A", value |-> 3],
    [kind |-> "RelAxis", code |-> "REL_X", value |-> 1] }

\* The batches of n events one fetch_events call can return.
Batches(n) == [1..n -> RawEvents]

(* ------------------------------- state -------------------------------- *)

VARIABLES
  args,             \* std::env::args()
  pc,               \* where the main thread is
  exit_code,        \* status passed to process::exit (read when pc = "exited")
  result,           \* Option of what start_keyboard_listener returned
  stdout,           \* lines printed with println!
  stderr,           \* lines printed with eprintln!
  dir_index,        \* number of directory entries the loop has taken
  probed,           \* the entry the last loop iteration handled (history)
  opened,           \* whether Device::open has returned Ok (history)
  perm_denied,      \* whether an open has failed with PermissionDenied (history)
  keyboard_devices, \* Vec<(PathBuf, Device)>, in push order
  last_error,       \* Option<String>: the last permission failure
  active_count,     \* Option of the AtomicUsize's value (None: not created)
  mon_pc,           \* per device: where its listen_keyboard_device call is
  pending,          \* per device: events of the fetched batch not yet handled
  fetched,          \* per device: every raw event fetched so far (history)
  remaining,        \* per device: Option of the closure's local `remaining`
  write_outcome     \* what write_text met (history)

vars ==
  << args, pc, exit_code, result, stdout, stderr, dir_index, probed, opened,
     perm_denied, keyboard_devices, last_error, active_count, mon_pc, pending, fetched,
     remaining, write_outcome >>

discovery_vars ==
  << dir_index, probed, opened, perm_denied, keyboard_devices, last_error >>

monitor_vars == << active_count, mon_pc, pending, fetched, remaining >>

(* ------------------------------ helpers ------------------------------- *)

\* The AtomicUsize is modelled 30 bits wide (the model checker's integers
\* are 32-bit); a wrap below zero still shows as a huge value.
UsizeModulus == 2^30

Err(msg) == [tag |-> "Err", msg |-> msg]

\* The KeyboardEvent output_error_event serialises to stdout.  `writer` is
\* history: 0 for the main thread, d for the thread of device d.
error_event(error_type, message, writer) ==
  [ event_type |-> "Error",
    name |-> Some(error_type),
    data |-> [error |-> error_type, message |-> message],
    writer |-> writer ]

\* The KeyboardEvent listen_keyboard_device serialises to stdout.
key_event(event_type, rdev_key_name, writer) ==
  [ event_type |-> event_type,
    name |-> Some(rdev_key_name),
    data |-> [key |-> rdev_key_name],
    writer |-> writer ]

\* is_keyboard with the KEY_LEFTALT probe forgotten.
is_keyboard_without_leftalt(keys) ==
  /\ IsSome(keys)
  /\ \/ "KEY_A" \in Unwrap(keys)
     \/ "KEY_SPACE" \in Unwrap(keys)
     \/ "KEY_LEFTCTRL" \in Unwrap(keys)

\* The closure passed to supported_keys().map_or(false, ..).
is_keyboard(keys) ==
  /\ IsSome(keys)
  /\ \/ "KEY_A" \in Unwrap(keys)
     \/ "KEY_SPACE" \in Unwrap(keys)
     \/ "KEY_LEFTCTRL" \in Unwrap(keys)
     \/ "KEY_LEFTALT" \in Unwrap(keys)

\* discovery_error_type with the two branches swapped.
discovery_error_type_swapped(err) ==
  IF IsSome(err) THEN "NoKeyboardFound" ELSE "PermissionDenied"

\* Which ErrorEvent the empty-list branch emits.
discovery_error_type(err) ==
  IF IsSome(err) THEN "PermissionDenied" ELSE "NoKeyboardFound"

\* single_device testing for an empty list instead.
single_device_is_empty(len) == len = 0

\* keyboard_devices.len() == 1
single_device(len) == len = 1

\* fetch_sub that stores the value unchanged (a load in place of the
\* decrement).
fetch_sub_no_store(count) == count

\* fetch_sub that subtracts two.
fetch_sub_two(count) == (count - 2) % UsizeModulus

\* AtomicUsize::fetch_sub(1): the value stored.
fetch_sub(count) == (count - 1) % UsizeModulus

\* none_remaining off by one.
none_remaining_le_one(rem) == rem <= 1

\* `remaining == 0` in the spawned closure.
none_remaining(rem) == rem = 0

\* all_stopped off by one: gives up while one device is still counted.
all_stopped_le_one(count) == count <= 1

\* `active_count.load(..) == 0` in the orchestrator's loop.
all_stopped(count) == count = 0

\* event_type_of with key repeat reported as a press.
event_type_of_repeat_as_press(value) ==
  CASE value = 0 -> "KeyRelease"
    [] value = 1 -> "KeyPress"
    [] value = 2 -> "KeyPress"
    [] OTHER -> "skip"

\* The match on event.value(): "skip" stands for `continue`.
event_type_of(value) ==
  CASE value = 0 -> "KeyRelease"
    [] value = 1 -> "KeyPress"
    [] value = 2 -> "skip"
    [] OTHER -> "skip"

\* write_exit_code with the failure status of the other arms.
write_exit_code_one(ok) == IF ok THEN 0 ELSE 1

\* The status main exits with after write_text.
write_exit_code(ok) == IF ok THEN 0 ELSE 101

RECURSIVE SumLen(_)
SumLen(seqs) ==
  IF seqs = <<>> THEN 0 ELSE Len(Head(seqs)) + SumLen(Tail(seqs))

\* Raw events read so far by all monitors.
TotalReads == SumLen(fetched)

\* The devices a monitor was set up for.
Devices == DOMAIN mon_pc

Alive == pc # "exited"

(* -------------------------------- Init -------------------------------- *)

Init ==
  /\ args \in ArgVectors
  /\ pc = "main"
  /\ exit_code = 0
  /\ result = None
  /\ stdout = <<>>
  /\ stderr = <<>>
  /\ dir_index = 0
  /\ probed = None
  /\ opened = FALSE
  /\ perm_denied = FALSE
  /\ keyboard_devices = <<>>
  /\ last_error = None
  /\ active_count = None
  /\ mon_pc = <<>>
  /\ pending = <<>>
  /\ fetched = <<>>
  /\ remaining = <<>>
  /\ write_outcome = "none"

(* -------------------------------- main -------------------------------- *)

\* main: the dispatch on args, and the usage branch.
MainDispatch ==
  /\ pc = "main"
  /\ IF Len(args) > 1 /\ args[2] = "listen"
       THEN /\ pc' = "read_dir"
            /\ UNCHANGED << exit_code, stderr >>
       ELSE IF Len(args) > 2 /\ args[2] = "write"
       THEN /\ pc' = "write_text"
            /\ UNCHANGED << exit_code, stderr >>
       ELSE /\ stderr' = stderr \o << <<"Usage">> >>
            /\ exit_code' = 1
            /\ pc' = "exited"
  /\ UNCHANGED << args, result, stdout, write_outcome >>
  /\ UNCHANGED discovery_vars
  /\ UNCHANGED monitor_vars

\* main's write arm: write_text(text) and the exit on its result.
WriteCommand ==
  /\ pc = "write_text"
  /\ \E outcome \in {"ok", "enigo_new_failed", "text_failed"} :
       /\ write_outcome' = outcome
       /\ stderr' =
            IF outcome = "ok" THEN stderr
            ELSE stderr \o << << IF outcome = "enigo_new_failed"
                                 THEN "Failed to create Enigo instance"
                                 ELSE "Failed to write text" >>,
                              <<"Write command failed">> >>
       /\ exit_code' = write_exit_code(outcome = "ok")
  /\ pc' = "exited"
  /\ UNCHANGED << args, result, stdout >>
  /\ UNCHANGED discovery_vars
  /\ UNCHANGED monitor_vars

\* main's listen arm once start_keyboard_listener has returned: exit(1) on
\* Err; on Ok main falls off its end and the process exits with 0.
MainListenReturn ==
  /\ pc = "listen_returned"
  /\ IF Unwrap(result).tag = "Err"
       THEN /\ stderr' = stderr \o << <<"!error", Unwrap(result).msg>> >>
            /\ exit_code' = 1
       ELSE /\ exit_code' = 0
            /\ UNCHANGED stderr
  /\ pc' = "exited"
  /\ UNCHANGED << args, result, stdout, write_outcome >>
  /\ UNCHANGED discovery_vars
  /\ UNCHANGED monitor_vars

(* ----------------------- start_keyboard_listener ---------------------- *)

\* fs::read_dir("/dev/input") and the `?` on its result.
ReadDir ==
  /\ pc = "read_dir"
  /\ \E ok \in BOOLEAN :
       IF ok
         THEN /\ pc' = "enumerate"
              /\ UNCHANGED result
         ELSE /\ result' = Some(Err("Cannot access /dev/input"))
              /\ pc' = "listen_returned"
  /\ UNCHANGED << args, exit_code, stdout, stderr, write_outcome >>
  /\ UNCHANGED discovery_vars
  /\ UNCHANGED monitor_vars

\* One iteration of the loop over the directory entries.  Paths are left
\* out: a device is known by its place in keyboard_devices.
ProbeEntry ==
  /\ pc = "enumerate"
  /\ dir_index < MaxEntries
  /\ \E entry \in DirEntries :
       LET push == entry.kind = "open_ok" /\ is_keyboard(entry.keys)
       IN  /\ dir_index' = dir_index + 1
           /\ probed' = Some([entry |-> entry, pushed |-> push])
           /\ opened' = (opened \/ entry.kind = "open_ok")
           /\ perm_denied' = (perm_denied \/ (entry.kind = "open_err" /\ entry.perm))
           /\ keyboard_devices' =
                IF push THEN Append(keyboard_devices, "device")
                ELSE keyboard_devices
           /\ stderr' =
                IF push THEN Append(stderr, <<"Found keyboard">>)
                ELSE stderr
           /\ last_error' =
                IF entry.kind = "open_err" /\ entry.perm
                THEN Some("Permission denied")
                ELSE last_error
  /\ UNCHANGED << args, pc, exit_code, result, stdout, write_outcome >>
  /\ UNCHANGED monitor_vars

\* The directory is exhausted: the empty-list branch, the single-device
\* branch, or the creation of the counter before the spawn loop.  The
\* loop's locals are gone (probed is None outside the loop), and when
\* monitoring starts nothing reads dir_index or last_error again: they and
\* the history of the discovery phase are cleared.
FinishDiscovery ==
  /\ pc = "enumerate"
  /\ probed' = None
  /\ UNCHANGED keyboard_devices
  /\ LET len == Len(keyboard_devices)
         error_type == discovery_error_type(last_error)
     IN  IF len = 0
           THEN /\ stdout' = Append(stdout,
                       error_event(error_type,
                         IF error_type = "PermissionDenied"
                         THEN "User must be in 'input' group"
                         ELSE "No keyboard device found in /dev/input/", 0))
                /\ stderr' = Append(stderr, <<"!error", error_type>>)
                /\ result' =
                     IF IsSome(last_error)
                     THEN Some(Err("Failed to access keyboard devices"))
                     ELSE Some(Err("No keyboard device found in /dev/input/"))
                /\ pc' = "listen_returned"
                /\ UNCHANGED monitor_vars
                /\ UNCHANGED << dir_index, opened, perm_denied, last_error >>
           ELSE /\ stderr' = Append(stderr, <<"Listening on", len>>)
                /\ UNCHANGED << stdout, result >>
                /\ dir_index' = 0
                /\ opened' = FALSE
                /\ perm_denied' = FALSE
                /\ last_error' = None
                /\ pending' = [d \in 1..len |-> <<>>]
                /\ fetched' = [d \in 1..len |-> <<>>]
                /\ remaining' = [d \in 1..len |-> None]
                /\ IF single_device(len)
                     THEN /\ mon_pc' = [d \in 1..len |->
                                IF d = 1 THEN "listening" ELSE "dropped"]
                          /\ pc' = "inline_monitor"
                          /\ UNCHANGED active_count
                     ELSE /\ mon_pc' = [d \in 1..len |-> "unspawned"]
                          /\ active_count' = Some(len)
                          /\ pc' = "spawn"
  /\ UNCHANGED << args, exit_code, write_outcome >>

\* One iteration of the spawn loop: thread::spawn for the next device.
SpawnMonitor ==
  /\ pc = "spawn"
  /\ LET d == CHOOSE i \in Devices :
                /\ mon_pc[i] = "unspawned"
                /\ \A j \in 1..(i - 1) : mon_pc[j] # "unspawned"
     IN  /\ mon_pc' = [mon_pc EXCEPT ![d] = "listening"]
         /\ pc' = IF d = Len(keyboard_devices) THEN "sleep" ELSE "spawn"
  /\ UNCHANGED << args, exit_code, result, stdout, stderr, write_outcome >>
  /\ UNCHANGED discovery_vars
  /\ UNCHANGED << active_count, pending, fetched, remaining >>

\* One turn of the orchestrator's loop: sleep, load the counter, return the
\* error if it is zero.
OrchestratorWake ==
  /\ pc = "sleep"
  /\ IF all_stopped(Unwrap(active_count))
       THEN /\ result' = Some(Err("All keyboard devices have stopped"))
            /\ pc' = "listen_returned"
       ELSE UNCHANGED << result, pc >>
  /\ UNCHANGED << args, exit_code, stdout, stderr, write_outcome >>
  /\ UNCHANGED discovery_vars
  /\ UNCHANGED monitor_vars

(* ----------------------- listen_keyboard_device ----------------------- *)

\* device.fetch_events() returns a batch.
FetchEvents(d) ==
  /\ Alive
  /\ d \in Devices
  /\ mon_pc[d] = "listening"
  /\ pending[d] = <<>>
  /\ \E n \in 1..MaxBatch :
       /\ TotalReads + n <= MaxReads
       /\ \E batch \in Batches(n) :
            /\ pending' = [pending EXCEPT ![d] = batch]
            /\ fetched' = [fetched EXCEPT ![d] = @ \o batch]
  /\ UNCHANGED << args, pc, exit_code, result, stdout, stderr, write_outcome >>
  /\ UNCHANGED discovery_vars
  /\ UNCHANGED << active_count, mon_pc, remaining >>

\* device.fetch_events() returns an error and `?` returns it.  Inline, the
\* error is start_keyboard_listener's result; in a thread the closure gets it.
DeviceError(d) ==
  /\ Alive
  /\ d \in Devices
  /\ mon_pc[d] = "listening"
  /\ pending[d] = <<>>
  /\ mon_pc' = [mon_pc EXCEPT ![d] = "failed"]
  /\ IF pc = "inline_monitor"
       THEN /\ result' = Some(Err("device I/O error"))
            /\ pc' = "listen_returned"
       ELSE UNCHANGED << result, pc >>
  /\ UNCHANGED << args, exit_code, stdout, stderr, write_outcome >>
  /\ UNCHANGED discovery_vars
  /\ UNCHANGED << active_count, pending, fetched, remaining >>

\* The body of the for loop for the next event of the batch.
ProcessEvent(d) ==
  /\ Alive
  /\ d \in Devices
  /\ mon_pc[d] = "listening"
  /\ pending[d] # <<>>
  /\ LET event == Head(pending[d])
         event_type == event_type_of(event.value)
     IN  /\ stdout' =
              IF event.kind = "Key" /\ event_type # "skip"
              THEN Append(stdout,
                     key_event(event_type, evdev_key_to_rdev_name(event.code), d))
              ELSE stdout
         /\ pending' = [pending EXCEPT ![d] = Tail(@)]
  /\ UNCHANGED << args, pc, exit_code, result, stderr, write_outcome >>
  /\ UNCHANGED discovery_vars
  /\ UNCHANGED << active_count, mon_pc, fetched, remaining >>

(* ------------------------- the spawned closure ------------------------ *)

\* The closure's error arm up to the atomic decrement.
MonitorDecrement(d) ==
  /\ Alive
  /\ d \in Devices
  /\ IsSome(active_count)
  /\ mon_pc[d] = "failed"
  /\ stderr' = Append(stderr, <<"Device stopped">>)
  /\ active_count' = Some(fetch_sub(Unwrap(active_count)))
  /\ remaining' = [remaining EXCEPT
                     ![d] = Some((Unwrap(active_count) - 1) % UsizeModulus)]
  /\ mon_pc' = [mon_pc EXCEPT ![d] = "decremented"]
  /\ UNCHANGED << args, pc, exit_code, result, stdout, write_outcome >>
  /\ UNCHANGED discovery_vars
  /\ UNCHANGED << pending, fetched >>

\* The closure's test of `remaining` and, when it is zero, the
\* AllDevicesFailed event; the thread then ends.
MonitorCheck(d) ==
  /\ Alive
  /\ d \in Devices
  /\ mon_pc[d] = "decremented"
  /\ IF none_remaining(Unwrap(remaining[d]))
       THEN /\ stdout' = Append(stdout,
                   error_event("AllDevicesFailed",
                               "All keyboard devices have stopped", d))
            /\ stderr' = Append(stderr, <<"!error", "AllDevicesFailed">>)
       ELSE UNCHANGED << stdout, stderr >>
  /\ mon_pc' = [mon_pc EXCEPT ![d] = "done"]
  /\ UNCHANGED << args, pc, exit_code, result, write_outcome >>
  /\ UNCHANGED discovery_vars
  /\ UNCHANGED << active_count, pending, fetched, remaining >>

(* --------------------------- specifications --------------------------- *)

Next ==
  \/ MainDispatch
  \/ WriteCommand
  \/ MainListenReturn
  \/ ReadDir
  \/ ProbeEntry
  \/ FinishDiscovery
  \/ SpawnMonitor
  \/ OrchestratorWake
  \/ \E d \in 1..MaxEntries :
       \/ FetchEvents(d)
       \/ DeviceError(d)
       \/ ProcessEvent(d)
       \/ MonitorDecrement(d)
       \/ MonitorCheck(d)

Spec == Init /\ [][Next]_vars

\* The operating system schedules every runnable thread: the main thread's
\* steps and each spawned closure's steps after its monitor has returned are
\* taken eventually.  Device reads block, so nothing forces a device to
\* deliver events or to fail.
Fairness ==
  /\ WF_vars(SpawnMonitor)
  /\ WF_vars(OrchestratorWake)
  /\ WF_vars(MainListenReturn)
  /\ \A d \in 1..MaxEntries :
       /\ WF_vars(MonitorDecrement(d))
       /\ WF_vars(MonitorCheck(d))

FairSpec == Init /\ [][Next]_vars /\ Fairness

(* ------------------------------- claims ------------------------------- *)

IsErrorLine(line) == line.event_type = "Error"

\* The indexes of the stdout lines that are ErrorEvents of the given kind.
ErrorLines(kind) ==
  { i \in 1..Len(stdout) :
      IsErrorLine(stdout[i]) /\ Unwrap(stdout[i].name) = kind }

AnyErrorLines == { i \in 1..Len(stdout) : IsErrorLine(stdout[i]) }

\* Discovery found more than one keyboard and the monitors are set up.
MultiSession == Len(keyboard_devices) > 1 /\ Devices # {}

\* Discovery found exactly one keyboard and its monitor is set up.
SingleSession == Len(keyboard_devices) = 1 /\ Devices # {}

\* Monitor d's listen_keyboard_device call has returned an error.
HasFailed(d) == mon_pc[d] \in {"failed", "decremented", "done"}

AllStoppedError == Some(Err("All keyboard devices have stopped"))

\* C1: with more than one keyboard, the AllDevicesFailed ErrorEvent is on
\* stdout at most once; when it is there every monitor has returned an
\* error and the line was written by the monitor whose decrement left the
\* counter at zero; and once every monitor task has run to its end the
\* line is there exactly once.
C1_AllDevicesFailedOnce ==
  MultiSession =>
    /\ Cardinality(ErrorLines("AllDevicesFailed")) <= 1
    /\ \A i \in ErrorLines("AllDevicesFailed") :
         /\ \A d \in Devices : HasFailed(d)
         /\ active_count = Some(0)
         /\ stdout[i].writer \in Devices
         /\ remaining[stdout[i].writer] = Some(0)
    /\ (\A d \in Devices : mon_pc[d] = "done") =>
         Cardinality(ErrorLines("AllDevicesFailed")) = 1

C1_Witness ==
  /\ MultiSession
  /\ \A d \in Devices : mon_pc[d] = "done"
  /\ Cardinality(ErrorLines("AllDevicesFailed")) = 1

\* C2: when the process has exited on the all-failed error or on a
\* discovery error (PermissionDenied, NoKeyboardFound), the ErrorEvent of
\* that kind is on stdout.
C2_ErrorEventBeforeExit ==
  (pc = "exited" /\ IsSome(result)) =>
    LET msg == Unwrap(result).msg
    IN  /\ msg = "All keyboard devices have stopped" =>
             ErrorLines("AllDevicesFailed") # {}
        /\ msg = "Failed to access keyboard devices" =>
             ErrorLines("PermissionDenied") # {}
        /\ msg = "No keyboard device found in /dev/input/" =>
             ErrorLines("NoKeyboardFound") # {}

\* C3: with more than one keyboard, start_keyboard_listener has returned
\* only if the counter is zero; while some monitor has not failed the
\* session has not ended: the orchestrator is still in its spawn or sleep
\* loop and the process is alive, so every listening monitor can go on.
C3_PartialFailureNonFatal ==
  MultiSession =>
    /\ IsSome(result) => active_count = Some(0)
    /\ (\E d \in Devices : ~HasFailed(d)) =>
         /\ pc \in {"spawn", "sleep"}
         /\ result = None
         /\ Alive

C3_Witness ==
  /\ MultiSession
  /\ pc = "sleep"
  /\ \E d \in Devices : mon_pc[d] = "done"
  /\ \E d \in Devices :
       /\ mon_pc[d] = "listening"
       /\ pending[d] # <<>>
       /\ Head(pending[d]).kind = "Key"
       /\ Head(pending[d]).value = 1

\* C4: with more than one keyboard, once every monitor has returned an
\* error the session ends: start_keyboard_listener returns "All keyboard
\* devices have stopped" and the process exits with status 1.
C4_AllFailedTerminates ==
  (MultiSession /\ \A d \in Devices : HasFailed(d))
    ~> (pc = "exited" /\ exit_code = 1 /\ result = AllStoppedError)

C4_Witness ==
  /\ MultiSession
  /\ pc = "exited"
  /\ exit_code = 1
  /\ result = AllStoppedError

\* The enumeration of the directory ran to its end (read_dir did not fail)
\* and start_keyboard_listener has returned.
DiscoveryEndedInError ==
  /\ pc \in {"listen_returned", "exited"}
  /\ Devices = {}
  /\ IsSome(result)
  /\ Unwrap(result).msg # "Cannot access /dev/input"

IsListenInvocation == Len(args) >= 2 /\ args[2] = "listen"

IsWriteInvocation == Len(args) >= 3 /\ args[2] = "write"

\* C6: the exit status: a listen invocation exits with 1 and never with 0;
\* write <text> exits with 0 when the injection succeeded and with 101
\* when it failed; every other invocation prints the usage and exits with 1.
C6_ExitStatus ==
  pc = "exited" =>
    IF IsListenInvocation
      THEN exit_code = 1
      ELSE IF IsWriteInvocation
      THEN /\ write_outcome = "ok" => exit_code = 0
           /\ write_outcome # "ok" => exit_code = 101
      ELSE /\ exit_code = 1
           /\ \E i \in 1..Len(stderr) : stderr[i] = <<"Usage">>

C6_Witness ==
  /\ pc = "exited"
  /\ IsWriteInvocation
  /\ write_outcome = "text_failed"
  /\ exit_code = 101

\* The raw events monitor d has taken out of its batches so far.
Handled(d) == SubSeq(fetched[d], 1, Len(fetched[d]) - Len(pending[d]))

\* The KeyEvents on stdout written by monitor d, as <<type, name>>.
KeyLinesOf(d) ==
  LET lines == SelectSeq(stdout,
                 LAMBDA line : ~IsErrorLine(line) /\ line.writer = d)
  IN  [i \in 1..Len(lines) |-> <<lines[i].event_type, Unwrap(lines[i].name)>>]

\* What the claim says a sequence of raw events yields: the key events
\* with value 1 as KeyPress and with value 0 as KeyRelease, in order.
PressesAndReleases(events) ==
  LET kept == SelectSeq(events,
                LAMBDA e : e.kind = "Key" /\ e.value \in {0, 1})
  IN  [i \in 1..Len(kept) |->
        << IF kept[i].value = 1 THEN "KeyPress" ELSE "KeyRelease",
           evdev_key_to_rdev_name(kept[i].code) >>]

\* C7: the KeyEvents a monitor has emitted are exactly, in order, the key
\* events with value 1 (as KeyPress) and value 0 (as KeyRelease) among the
\* raw events it has handled, and each carries a non-empty name.
C7_KeyEventsArePressesAndReleases ==
  /\ \A d \in Devices : KeyLinesOf(d) = PressesAndReleases(Handled(d))
  /\ \A i \in 1..Len(stdout) :
       ~IsErrorLine(stdout[i]) =>
         /\ stdout[i].event_type \in {"KeyPress", "KeyRelease"}
         /\ IsSome(stdout[i].name)
         /\ Len(Unwrap(stdout[i].name)) > 0

C7_Witness ==
  \E d \in Devices :
    /\ Len(Handled(d)) = 2
    /\ Handled(d)[1] = [kind |-> "Key", code |-> "BTN_LEFT", value |-> 2]
    /\ Handled(d)[2] = [kind |-> "Key", code |-> "KEY_MUTE", value |-> 0]
    /\ KeyLinesOf(d) = << <<"KeyRelease", <<"M","U","T","E">> >> >>

\* The monitors that have performed their decrement.
Decremented == { d \in Devices : IsSome(remaining[d]) }

\* C8: the counter, once created, equals the number of discovered
\* keyboards minus the number of monitors that have decremented it, and
\* lies between zero and that number (it has not wrapped).
C8_ActiveCountTracksMonitors ==
  IsSome(active_count) =>
    /\ Unwrap(active_count) =
         Len(keyboard_devices) - Cardinality(Decremented)
    /\ Unwrap(active_count) \in 0..Len(keyboard_devices)

C8_Witness ==
  /\ MultiSession
  /\ active_count = Some(0)
  /\ Cardinality(Decremented) = Len(keyboard_devices)

\* The device the last loop iteration opened, if it opened one.
ProbedDevice ==
  /\ pc = "enumerate"
  /\ IsSome(probed)
  /\ Unwrap(probed).entry.kind = "open_ok"

\* Whether the probed device's key set holds a key of the given set.
ProbedHasKeyOf(keys) ==
  /\ IsSome(Unwrap(probed).entry.keys)
  /\ Unwrap(Unwrap(probed).entry.keys) \cap keys # {}

C10_SingleKeyboardInline ==
  SingleSession =>
    /\ active_count = None
    /\ pc \in {"inline_monitor", "listen_returned", "exited"}
    /\ mon_pc[1] \in {"listening", "failed"}
    /\ AnyErrorLines = {}
    /\ mon_pc[1] = "failed" => result = Some(Err("device I/O error"))
    /\ pc = "exited" => exit_code = 1

C10_Witness ==
  /\ SingleSession
  /\ mon_pc[1] = "failed"
  /\ pc = "exited"
  /\ exit_code = 1
  /\ Len(stdout) = 1

====
